---- MODULE Spec2Model ----
(***************************************************************************)
(* Session and state-synchronisation protocol of godot-bevy-quinn.         *)
(*                                                                         *)
(* Server side (rust/src/server.rs): the identity registry Users.names,    *)
(* the per-tick message loop handle_client_messages, the connection-loss   *)
(* loop handle_server_events and the shared routine handle_disconnect.     *)
(* Client side (rust/src/lib.rs, rust/src/player.rs): the local Users      *)
(* mirror, handle_server_messages with its deferred world commands,        *)
(* player_spawner_system, and the physics tick of player_input_system and  *)
(* player_movement_system.                                                 *)
(*                                                                         *)
(* The transport (bevy_quinnet) is the environment.  What the model takes  *)
(* from it: connection ids are handed out in increasing order and never    *)
(* reused; endpoint.clients() is the set of ids whose connection is open;  *)
(* a send to an id that is not open fails; a group send tries every target *)
(* and reports an error if any target failed; the default channel is       *)
(* ordered and reliable.                                                   *)
(***************************************************************************)
EXTENDS Integers, Sequences, FiniteSets, TLC

\* Bounds of the model.
MaxConn == 2
MaxMsgs == 3
MaxTicks == 1
MaxFrames == 2
MaxTyped == 102

PLAYER_SPEED == 150
\* Axis values are counted in tenths: INPUT_DEADZONE is 0.2
INPUT_DEADZONE == 2
\* (current_pos - reported).length() > 2.0
JITTER == 2
\* mpsc::channel::<String>(100)
CHAT_CAPACITY == 100

Conns == 1..MaxConn
UserNames == {"alice", "bob"}
Texts == {"hi"}
\* Reported (x, y, horizontal, vertical) of the PlayerUpdate messages tried.
Updates == { [x |-> 204, y |-> 100, horizontal |-> -10, vertical |-> 0],
             [x |-> 201, y |-> 100, horizontal |-> 0, vertical |-> 0] }
\* Reported (x, y, horizontal, vertical) of the PlayerUpdate messages fed to
\* a client directly: positions around the spawn points and around
\* (210, 100), and inputs below, at and above the deadzone and on both sides
\* of the diagonal.
Reports == { [x |-> 210, y |-> 100, horizontal |-> 0, vertical |-> 0],
             [x |-> 212, y |-> 100, horizontal |-> 0, vertical |-> 10],
             [x |-> 211, y |-> 101, horizontal |-> 1, vertical |-> -1],
             [x |-> 212, y |-> 101, horizontal |-> -10, vertical |-> 10],
             [x |-> 200, y |-> 102, horizontal |-> 10, vertical |-> 10],
             [x |-> 210, y |-> 100, horizontal |-> -5, vertical |-> 10],
             [x |-> 210, y |-> 100, horizontal |-> 5, vertical |-> -10],
             [x |-> 210, y |-> 100, horizontal |-> -10, vertical |-> 5],
             [x |-> 210, y |-> 100, horizontal |-> 2, vertical |-> 0] }
\* x coordinates tried for rand::random::<f32>() * 400.0 + 200.0
SpawnXs == {200, 202}
\* Raw axis values of the local input device tried, in tenths
Axis == {0, 10}
\* Contents of the chat input tried at a ui_text_submit, as sequences of
\* characters: empty, a word, and the word followed by a blank
Typed == { <<>>, <<"h", "i">>, <<"h", "i", " ">> }

VARIABLES
    conn,        \* transport: conn[c] in {"none", "open", "closed"}
    inbox,       \* transport: inbox[c], client messages of c not yet received
    lostEvents,  \* pending ConnectionLostEvent ids, in order of emission
    noticed,     \* ids for which a ConnectionLostEvent has been emitted
    users,       \* server Users.names: function from registered ids to names
    crashed,     \* the server loop panicked on an unwrap()
    log,         \* history: the events the server processed and the sends
                 \* it issued, in order
    nmsgs,       \* number of client messages sent so far
    me,          \* the connection id of the client whose side is modelled
    mailbox,     \* server messages delivered to me and not yet received
    cusers,      \* client Users: [self_id, names]
    chat,        \* client Chat.messages
    players,     \* client player entities, in query order
    spawnEvents, \* client SpawnPlayerEvent queue
    inputEvents, \* client PlayerInputEvent queue
    observed,    \* history: ids whose ClientDisconnected the client received
    nticks,      \* number of physics ticks run so far
    terminal,    \* client chat channel: texts submitted and not yet read
    ccrashed     \* the client's loop panicked on an unwrap()

svars == <<conn, inbox, lostEvents, noticed, users, crashed, log, nmsgs>>
cvars == <<me, mailbox, cusers, chat, players, spawnEvents, inputEvents,
           observed, nticks, terminal, ccrashed>>

----------------------------------------------------------------------------
\* Message vocabulary (rust/src/protocol.rs)

ClientMessage ==
    [type : {"Join"}, name : UserNames]
    \cup [type : {"Disconnect"}]
    \cup [type : {"ChatMessage"}, message : Texts]
    \cup { [type |-> "PlayerUpdate", x |-> u.x, y |-> u.y,
            horizontal |-> u.horizontal, vertical |-> u.vertical] : u \in Updates }

ClientConnected(id, name) ==
    [type |-> "ClientConnected", client_id |-> id, username |-> name]
ClientDisconnected(id) ==
    [type |-> "ClientDisconnected", client_id |-> id]
ChatMessage(id, text) ==
    [type |-> "ChatMessage", client_id |-> id, message |-> text]
InitClient(id, names) ==
    [type |-> "InitClient", client_id |-> id, usernames |-> names]
PlayerUpdate(id, m) ==
    [type |-> "PlayerUpdate", client_id |-> id, x |-> m.x, y |-> m.y,
     horizontal |-> m.horizontal, vertical |-> m.vertical]

----------------------------------------------------------------------------
\* HashMap operations on functions

Insert(map, k, v) == [x \in DOMAIN map \cup {k} |-> IF x = k THEN v ELSE map[x]]
Remove(map, k) == [x \in DOMAIN map \ {k} |-> map[x]]
EmptyMap == [x \in {} |-> "alice"]

\* All orders in which a set can be iterated (HashMap / clients() order).
RECURSIVE Orders(_)
Orders(S) ==
    IF S = {} THEN { <<>> }
    ELSE UNION { { <<x>> \o o : o \in Orders(S \ {x}) } : x \in S }

----------------------------------------------------------------------------
\* Server.  A server state is the record
\*   [users, open, inbox, tr, crashed]
\* threaded through one run of a system.  tr is the trace of the run: the
\* Join/Disconnect/Lost events it processed and the sends it issued, in
\* order.  A send records its message, the ids it was addressed to (to) and
\* the ids whose connection took it (got).

\* endpoint.send_message / send_group_message / try_send_group_message:
\* the message is queued for every target whose connection is open.
Send(s, targets, msg) ==
    [s EXCEPT !.tr = Append(@, [k |-> "send", msg |-> msg, to |-> targets,
                                 got |-> targets \cap s.open])]
\* The Result of the send is Err when some target is not a known client.
SendOk(s, targets) == targets \subseteq s.open

\* .unwrap() on the Result of a send
Unwrap(s, ok) == [s EXCEPT !.crashed = ~ok]

\* Faulty variants of handle_disconnect, against which the properties of the
\* disconnect routine are tested.
\* - the name is looked up (get) and the entry is left in the registry
handle_disconnect_get(s0, client_id, cause) ==
    LET s == [s0 EXCEPT !.tr = Append(@, [k |-> cause, id |-> client_id,
                                           name |-> ""])]
    IN  IF client_id \in DOMAIN s.users
        THEN LET tg == DOMAIN s.users \ {client_id}
             IN  Unwrap(Send(s, tg, ClientDisconnected(client_id)), SendOk(s, tg))
        ELSE s

\* - the broadcast is made whether or not the id was registered
handle_disconnect_always(s0, client_id, cause) ==
    LET s == [s0 EXCEPT !.tr = Append(@, [k |-> cause, id |-> client_id,
                                           name |-> ""])]
        s1 == [s EXCEPT !.users = Remove(@, client_id)]
        tg == DOMAIN s1.users
    IN  Unwrap(Send(s1, tg, ClientDisconnected(client_id)), SendOk(s1, tg))

\* - the broadcast is addressed to the registry as it was before the removal
handle_disconnect_first(s0, client_id, cause) ==
    LET s == [s0 EXCEPT !.tr = Append(@, [k |-> cause, id |-> client_id,
                                           name |-> ""])]
    IN  IF client_id \in DOMAIN s.users
        THEN LET s1 == [s EXCEPT !.users = Remove(@, client_id)]
                 tg == DOMAIN s.users
             IN  Unwrap(Send(s1, tg, ClientDisconnected(client_id)), SendOk(s1, tg))
        ELSE s

handle_disconnect(s0, client_id, cause) ==
    LET s == [s0 EXCEPT !.tr = Append(@, [k |-> cause, id |-> client_id,
                                           name |-> ""])]
    IN  IF client_id \in DOMAIN s.users
        THEN LET s1 == [s EXCEPT !.users = Remove(@, client_id)]
                 tg == DOMAIN s1.users
             IN  Unwrap(Send(s1, tg, ClientDisconnected(client_id)), SendOk(s1, tg))
        ELSE s

\* Faulty variants of the Join arm, against which the properties of Join
\* are tested.
\* - a repeated Join overwrites the registered name
OnJoin_overwrite(s0, client_id, name) ==
    LET s == [s0 EXCEPT !.tr = Append(@, [k |-> "Join", id |-> client_id,
                                           name |-> name])]
    IN  IF client_id \in DOMAIN s.users
        THEN [s EXCEPT !.users = Insert(@, client_id, name)]
        ELSE LET s1 == [s EXCEPT !.users = Insert(@, client_id, name)]
                 s2 == Unwrap(Send(s1, {client_id},
                                   InitClient(client_id, s1.users)),
                              SendOk(s1, {client_id}))
                 tg == DOMAIN s1.users
             IN  IF s2.crashed THEN s2
                 ELSE Unwrap(Send(s2, tg, ClientConnected(client_id, name)),
                             SendOk(s2, tg))

\* - the registry is not consulted: every Join is answered
OnJoin_nocheck(s0, client_id, name) ==
    LET s == [s0 EXCEPT !.tr = Append(@, [k |-> "Join", id |-> client_id,
                                           name |-> name])]
        s1 == IF client_id \in DOMAIN s.users THEN s
              ELSE [s EXCEPT !.users = Insert(@, client_id, name)]
        s2 == Unwrap(Send(s1, {client_id}, InitClient(client_id, s1.users)),
                     SendOk(s1, {client_id}))
        tg == DOMAIN s1.users
    IN  IF s2.crashed THEN s2
        ELSE Unwrap(Send(s2, tg, ClientConnected(client_id, name)),
                    SendOk(s2, tg))

\* - the announcement is broadcast before InitClient is sent
OnJoin_announce_first(s0, client_id, name) ==
    LET s == [s0 EXCEPT !.tr = Append(@, [k |-> "Join", id |-> client_id,
                                           name |-> name])]
    IN  IF client_id \in DOMAIN s.users
        THEN s
        ELSE LET s1 == [s EXCEPT !.users = Insert(@, client_id, name)]
                 tg == DOMAIN s1.users
                 s2 == Unwrap(Send(s1, tg, ClientConnected(client_id, name)),
                              SendOk(s1, tg))
             IN  IF s2.crashed THEN s2
                 ELSE Unwrap(Send(s2, {client_id},
                                  InitClient(client_id, s1.users)),
                             SendOk(s2, {client_id}))

\* - the roster of InitClient is taken before the insertion
OnJoin_roster_before(s0, client_id, name) ==
    LET s == [s0 EXCEPT !.tr = Append(@, [k |-> "Join", id |-> client_id,
                                           name |-> name])]
    IN  IF client_id \in DOMAIN s.users
        THEN s
        ELSE LET s1 == [s EXCEPT !.users = Insert(@, client_id, name)]
                 s2 == Unwrap(Send(s1, {client_id},
                                   InitClient(client_id, s.users)),
                              SendOk(s1, {client_id}))
                 tg == DOMAIN s1.users
             IN  IF s2.crashed THEN s2
                 ELSE Unwrap(Send(s2, tg, ClientConnected(client_id, name)),
                             SendOk(s2, tg))

\* - InitClient is sent to the whole registry instead of the joining id
OnJoin_init_all(s0, client_id, name) ==
    LET s == [s0 EXCEPT !.tr = Append(@, [k |-> "Join", id |-> client_id,
                                           name |-> name])]
    IN  IF client_id \in DOMAIN s.users
        THEN s
        ELSE LET s1 == [s EXCEPT !.users = Insert(@, client_id, name)]
                 tg == DOMAIN s1.users
                 s2 == Unwrap(Send(s1, tg, InitClient(client_id, s1.users)),
                              SendOk(s1, tg))
             IN  IF s2.crashed THEN s2
                 ELSE Unwrap(Send(s2, tg, ClientConnected(client_id, name)),
                             SendOk(s2, tg))

OnJoin(s0, client_id, name) ==
    LET s == [s0 EXCEPT !.tr = Append(@, [k |-> "Join", id |-> client_id,
                                           name |-> name])]
    IN  IF client_id \in DOMAIN s.users
        THEN s
        ELSE LET s1 == [s EXCEPT !.users = Insert(@, client_id, name)]
                 s2 == Unwrap(Send(s1, {client_id},
                                   InitClient(client_id, s1.users)),
                              SendOk(s1, {client_id}))
                 tg == DOMAIN s1.users
             IN  IF s2.crashed THEN s2
                 ELSE Unwrap(Send(s2, tg, ClientConnected(client_id, name)),
                             SendOk(s2, tg))

\* Faulty variant of the Disconnect arm: the connection is not closed.
OnDisconnect_stays(s, client_id) ==
    handle_disconnect(s, client_id, "Disconnect")

OnDisconnect(s, client_id) ==
    \* endpoint.disconnect_client(client_id).unwrap()
    IF client_id \notin s.open
    THEN [s EXCEPT !.crashed = TRUE]
    ELSE handle_disconnect([s EXCEPT !.open = @ \ {client_id}], client_id,
                           "Disconnect")

\* Faulty variant of the ChatMessage arm: the sender is left out of the
\* broadcast.
OnChatMessage_others(s, client_id, message) ==
    Send(s, DOMAIN s.users \ {client_id}, ChatMessage(client_id, message))

OnChatMessage(s, client_id, message) ==
    Send(s, DOMAIN s.users, ChatMessage(client_id, message))

\* Faulty variant of the PlayerUpdate arm: the update goes to every open
\* connection, registered or not.
OnPlayerUpdate_all(s, client_id, m) ==
    Send(s, s.open, PlayerUpdate(client_id, m))

OnPlayerUpdate(s, client_id, m) ==
    Send(s, DOMAIN s.users, PlayerUpdate(client_id, m))

Dispatch(s, client_id, m) ==
    CASE m.type = "Join" -> OnJoin(s, client_id, m.name)
      [] m.type = "Disconnect" -> OnDisconnect(s, client_id)
      [] m.type = "ChatMessage" -> OnChatMessage(s, client_id, m.message)
      [] m.type = "PlayerUpdate" -> OnPlayerUpdate(s, client_id, m)

\* Faulty variant of the receive loop: the newest message is taken first.
RECURSIVE Drain_newest(_, _)
Drain_newest(s, client_id) ==
    IF s.crashed \/ client_id \notin s.open \/ s.inbox[client_id] = <<>>
    THEN s
    ELSE LET q == s.inbox[client_id]
             m == q[Len(q)]
             s1 == [s EXCEPT !.inbox[client_id] = SubSeq(q, 1, Len(q) - 1)]
         IN  Drain_newest(Dispatch(s1, client_id, m), client_id)

\* while let Some(..) = endpoint.try_receive_message_from(client_id):
\* the receive yields nothing once the id is no longer a known client.
RECURSIVE Drain(_, _)
Drain(s, client_id) ==
    IF s.crashed \/ client_id \notin s.open \/ s.inbox[client_id] = <<>>
    THEN s
    ELSE LET m == Head(s.inbox[client_id])
             s1 == [s EXCEPT !.inbox[client_id] = Tail(@)]
         IN  Drain(Dispatch(s1, client_id, m), client_id)

\* for client_id in endpoint.clients()
RECURSIVE ForClients(_, _)
ForClients(s, order) ==
    IF order = <<>> \/ s.crashed THEN s
    ELSE ForClients(Drain(s, Head(order)), Tail(order))

\* for client in connection_lost_events.read()
RECURSIVE ForLost(_, _)
ForLost(s, events) ==
    IF events = <<>> \/ s.crashed THEN s
    ELSE ForLost(handle_disconnect(s, Head(events), "Lost"), Tail(events))

Open == { c \in Conns : conn[c] = "open" }

ServerState ==
    [users |-> users, open |-> Open, inbox |-> inbox, tr |-> <<>>,
     crashed |-> crashed]

\* Connections the run closed lose their queue with their entry in the
\* endpoint's client table.
Install(s) ==
    /\ users' = s.users
    /\ conn' = [c \in Conns |-> IF conn[c] = "open" /\ c \notin s.open
                                THEN "closed" ELSE conn[c]]
    /\ inbox' = [c \in Conns |-> IF c \in s.open THEN s.inbox[c] ELSE <<>>]
    /\ crashed' = s.crashed

\* What a run of the server hands to the client's connection.
ForMe(r) == r.k = "send" /\ me \in r.got
Delivered(tr) ==
    LET mine == SelectSeq(tr, ForMe) IN [i \in 1..Len(mine) |-> mine[i].msg]

Deliver(s) ==
    /\ mailbox' = mailbox \o Delivered(s.tr)
    /\ UNCHANGED <<log, me, cusers, chat, players, spawnEvents, inputEvents,
                   observed, nticks, terminal, ccrashed>>

Record(s) ==
    /\ log' = log \o s.tr
    /\ UNCHANGED cvars

\* What is kept of a run: its trace in log, or the messages sent to me in
\* the client's connection.
Observe(s, how) == IF how = "record" THEN Record(s) ELSE Deliver(s)

handle_client_messages(how) ==
    /\ ~crashed
    /\ \E c \in Open : inbox[c] # <<>>
    /\ \E order \in Orders(Open) :
           LET s == ForClients(ServerState, order) IN Install(s) /\ Observe(s, how)
    /\ UNCHANGED <<lostEvents, noticed, nmsgs>>

handle_server_events(how) ==
    /\ ~crashed
    /\ lostEvents # <<>>
    /\ LET s == ForLost(ServerState, lostEvents) IN Install(s) /\ Observe(s, how)
    /\ lostEvents' = <<>>
    /\ UNCHANGED <<noticed, nmsgs>>

----------------------------------------------------------------------------
\* Transport and the sending side of the clients

\* A client message reaches the server's receive queue of its connection.
\* The first message of a connection comes with the connection itself: the
\* transport accepts it and hands it the next id.
ClientSend(c, m) ==
    /\ \/ conn[c] = "open"
       \/ conn[c] = "none" /\ \A d \in Conns : d < c => conn[d] # "none"
    /\ nmsgs < MaxMsgs
    /\ nmsgs' = nmsgs + 1
    /\ conn' = [conn EXCEPT ![c] = "open"]
    /\ inbox' = [inbox EXCEPT ![c] = Append(@, m)]
    /\ UNCHANGED <<lostEvents, noticed, users, crashed, log>>

\* The transport finds the connection gone: the id leaves the client table
\* and a ConnectionLostEvent is emitted.
ConnectionLost(c) ==
    /\ conn[c] = "open"
    /\ conn' = [conn EXCEPT ![c] = "closed"]
    /\ inbox' = [inbox EXCEPT ![c] = <<>>]
    /\ lostEvents' = Append(lostEvents, c)
    /\ noticed' = noticed \cup {c}
    /\ UNCHANGED <<users, crashed, log, nmsgs>>

\* After the server closed a connection itself the transport may still
\* report the closure as a ConnectionLostEvent.
ClosedNotice(c) ==
    /\ conn[c] = "closed"
    /\ c \notin noticed
    /\ lostEvents' = Append(lostEvents, c)
    /\ noticed' = noticed \cup {c}
    /\ UNCHANGED <<conn, inbox, users, crashed, log, nmsgs>>

----------------------------------------------------------------------------
\* Client (rust/src/lib.rs, rust/src/player.rs).  One client is modelled,
\* the one that owns connection me; the other connections are driven by
\* ClientSend.  A client state is the record [users, cmds] threaded through
\* one run of handle_server_messages: users is the Users resource and cmds
\* the Commands queue, applied to the world when the system has run.

Abs(a) == IF a < 0 THEN -a ELSE a
Sgn(a) == IF a < 0 THEN -1 ELSE IF a > 0 THEN 1 ELSE 0

\* Chat lines: format!("{} joined", ..), format!("{} left", ..),
\* format!("{}: {}", .., ..)
JoinedLine(username) == <<username, " joined">>
LeftLine(username) == <<username, " left">>
SaidLine(username, message) == <<username, ": ", message>>

\* The ids of order that are in S, in that order (iteration over keys()).
RECURSIVE Restrict(_, _)
Restrict(order, S) ==
    IF order = <<>> THEN <<>>
    ELSE IF Head(order) \in S THEN <<Head(order)>> \o Restrict(Tail(order), S)
    ELSE Restrict(Tail(order), S)

SpawnCmd(id) == [k |-> "spawn", id |-> id]
ChatCmd(line) == [k |-> "chat", line |-> line]
LeftCmd(id, username) == [k |-> "left", id |-> id, line |-> LeftLine(username)]
UpdateCmd(m, player_id) == [k |-> "update", m |-> m, player_id |-> player_id]

\* Faulty variant of the ClientConnected arm: a spawn is issued for every
\* id, the client's own included.
OnClientConnected_spawns(cs, m) ==
    LET u == [cs.users EXCEPT !.names = Insert(@, m.client_id, m.username)]
    IN  [users |-> u,
         cmds |-> cs.cmds \o <<SpawnCmd(m.client_id)>>
                  \o <<ChatCmd(JoinedLine(m.username))>>]

\* Faulty variant of the ClientConnected arm: the roster is not updated.
OnClientConnected_noinsert(cs, m) ==
    LET spawn == IF m.client_id # cs.users.self_id THEN <<SpawnCmd(m.client_id)>>
                 ELSE <<>>
    IN  [cs EXCEPT !.cmds = @ \o spawn \o <<ChatCmd(JoinedLine(m.username))>>]

OnClientConnected(cs, m) ==
    LET u == [cs.users EXCEPT !.names = Insert(@, m.client_id, m.username)]
        spawn == IF m.client_id # u.self_id THEN <<SpawnCmd(m.client_id)>>
                 ELSE <<>>
    IN  [users |-> u,
         cmds |-> cs.cmds \o spawn \o <<ChatCmd(JoinedLine(m.username))>>]

\* Faulty variant of the ClientDisconnected arm: the departure is announced
\* in the chat and the node freed, but the roster entry is kept.
OnClientDisconnected_keep(cs, m) ==
    IF m.client_id \in DOMAIN cs.users.names
    THEN [cs EXCEPT !.cmds = Append(@,
              LeftCmd(m.client_id, cs.users.names[m.client_id]))]
    ELSE cs

\* Faulty variant of the ClientDisconnected arm: the departure of an id that
\* is not in the roster is announced as well.
OnClientDisconnected_always(cs, m) ==
    IF m.client_id \in DOMAIN cs.users.names
    THEN [users |-> [cs.users EXCEPT !.names = Remove(@, m.client_id)],
          cmds |-> Append(cs.cmds,
                          LeftCmd(m.client_id, cs.users.names[m.client_id]))]
    ELSE [cs EXCEPT !.cmds = Append(@, LeftCmd(m.client_id, "bob"))]

OnClientDisconnected(cs, m) ==
    IF m.client_id \in DOMAIN cs.users.names
    THEN [users |-> [cs.users EXCEPT !.names = Remove(@, m.client_id)],
          cmds |-> Append(cs.cmds,
                          LeftCmd(m.client_id, cs.users.names[m.client_id]))]
    ELSE cs

\* Faulty variant of the ChatMessage arm: a message of an id that is not in
\* the roster is shown with a placeholder name.
OnServerChatMessage_unknown(cs, m) ==
    IF m.client_id \in DOMAIN cs.users.names
    THEN [cs EXCEPT !.cmds = Append(@,
              ChatCmd(SaidLine(cs.users.names[m.client_id], m.message)))]
    ELSE [cs EXCEPT !.cmds = Append(@, ChatCmd(SaidLine("unknown", m.message)))]

OnServerChatMessage(cs, m) ==
    IF m.client_id \in DOMAIN cs.users.names
    THEN [cs EXCEPT !.cmds = Append(@,
              ChatCmd(SaidLine(cs.users.names[m.client_id], m.message)))]
    ELSE cs

\* Faulty variant of the InitClient arm: the joins of the roster's other
\* members are replayed into the chat.
OnInitClient_replays(cs, m, order) ==
    LET others == Restrict(order, DOMAIN m.usernames \ {m.client_id})
    IN  [users |-> [self_id |-> m.client_id, names |-> m.usernames],
         cmds |-> cs.cmds \o <<SpawnCmd(m.client_id)>>
                  \o [i \in 1..Len(others) |-> SpawnCmd(others[i])]
                  \o [i \in 1..Len(others) |->
                         ChatCmd(JoinedLine(m.usernames[others[i]]))]]

OnInitClient(cs, m, order) ==
    LET others == Restrict(order, DOMAIN m.usernames \ {m.client_id})
    IN  [users |-> [self_id |-> m.client_id, names |-> m.usernames],
         cmds |-> cs.cmds \o <<SpawnCmd(m.client_id)>>
                  \o [i \in 1..Len(others) |-> SpawnCmd(others[i])]]

OnServerPlayerUpdate(cs, m) ==
    [cs EXCEPT !.cmds = Append(@, UpdateCmd(m, cs.users.self_id))]

ClientDispatch(cs, m, order) ==
    CASE m.type = "ClientConnected" -> OnClientConnected(cs, m)
      [] m.type = "ClientDisconnected" -> OnClientDisconnected(cs, m)
      [] m.type = "ChatMessage" -> OnServerChatMessage(cs, m)
      [] m.type = "InitClient" -> OnInitClient(cs, m, order)
      [] m.type = "PlayerUpdate" -> OnServerPlayerUpdate(cs, m)

\* while let Some(..) = client.connection_mut().try_receive_message()
RECURSIVE Receive(_, _, _)
Receive(cs, msgs, order) ==
    IF msgs = <<>> THEN cs
    ELSE Receive(ClientDispatch(cs, Head(msgs), order), Tail(msgs), order)

\* Faulty variant of the position test: the client's own id is not excluded.
IsRemoteNode_any(e, client_id, player_id) == e.id = client_id

\* The position test of the PlayerUpdate closure: the node carries the
\* reported id and the id is not the client's own.
IsRemoteNode(e, client_id, player_id) == e.id = client_id /\ client_id # player_id

\* Faulty variant of the distance test: the threshold itself counts as far.
FarApart_inclusive(e, m) ==
    (e.x - m.x) * (e.x - m.x) + (e.y - m.y) * (e.y - m.y) >= JITTER * JITTER

FarApart(e, m) ==
    (e.x - m.x) * (e.x - m.x) + (e.y - m.y) * (e.y - m.y) > JITTER * JITTER

Reconcile(e, m, player_id) ==
    IF IsRemoteNode(e, m.client_id, player_id) /\ FarApart(e, m)
    THEN [e EXCEPT !.x = m.x, !.y = m.y]
    ELSE e

PlayerInputEvent(id, h, v) == [client_id |-> id, horizontal |-> h, vertical |-> v]

\* One queued command applied to the world [chat, players, spawnEvents,
\* inputEvents].
Apply(w, c) ==
    CASE c.k = "spawn" -> [w EXCEPT !.spawnEvents = Append(@, c.id)]
      [] c.k = "chat" -> [w EXCEPT !.chat = Append(@, c.line)]
      [] c.k = "left" ->
            LET keep(e) == e.id # c.id
            IN  [w EXCEPT !.chat = Append(@, c.line),
                          !.players = SelectSeq(@, keep)]
      [] c.k = "update" ->
            [w EXCEPT !.players = [i \in 1..Len(@) |->
                                      Reconcile(@[i], c.m, c.player_id)],
                      !.inputEvents = Append(@,
                          PlayerInputEvent(c.m.client_id, c.m.horizontal,
                                           c.m.vertical))]

RECURSIVE ApplyAll(_, _)
ApplyAll(w, cmds) ==
    IF cmds = <<>> THEN w ELSE ApplyAll(Apply(w, Head(cmds)), Tail(cmds))

World ==
    [chat |-> chat, players |-> players, spawnEvents |-> spawnEvents,
     inputEvents |-> inputEvents]

InstallWorld(w) ==
    /\ chat' = w.chat
    /\ players' = w.players
    /\ spawnEvents' = w.spawnEvents
    /\ inputEvents' = w.inputEvents

\* One run of handle_server_messages over the n messages that have arrived,
\* followed by the application of the commands it queued.
handle_server_messages(n, order) ==
    /\ n \in 1..Len(mailbox)
    /\ LET cs == Receive([users |-> cusers, cmds |-> <<>>],
                         SubSeq(mailbox, 1, n), order)
       IN  /\ cusers' = cs.users
           /\ InstallWorld(ApplyAll(World, cs.cmds))
    /\ mailbox' = SubSeq(mailbox, n + 1, Len(mailbox))
    /\ observed' = observed \cup { mailbox[i].client_id : i \in
                         { j \in 1..n : mailbox[j].type = "ClientDisconnected" } }
    /\ UNCHANGED <<conn, inbox, lostEvents, noticed, users, crashed, log, nmsgs,
                   me, nticks, terminal, ccrashed>>

\* The entity of a spawned player: Player(client_id), the node's position,
\* PlayerInputState, PlayerFacing (FacingDir::default() is Down),
\* PlayerAnimState.current, and the animations played on the node's sprite
\* so far (plays).
NewPlayer(client_id, x) ==
    [id |-> client_id, x |-> x, y |-> 100, h |-> 0, v |-> 0,
     facing |-> "Down", anim |-> "", plays |-> <<>>]

RECURSIVE SpawnAll(_, _)
SpawnAll(events, xs) ==
    IF events = <<>> THEN <<>>
    ELSE <<NewPlayer(Head(events), Head(xs))>> \o SpawnAll(Tail(events), Tail(xs))

\* One run of player_spawner_system: an entity per pending event.
player_spawner_system ==
    /\ spawnEvents # <<>>
    /\ \E xs \in [1..Len(spawnEvents) -> SpawnXs] :
           players' = players \o SpawnAll(spawnEvents, xs)
    /\ spawnEvents' = <<>>
    /\ UNCHANGED <<conn, inbox, lostEvents, noticed, users, crashed, log, nmsgs,
                   me, mailbox, cusers, chat, inputEvents, observed, nticks,
                   terminal, ccrashed>>

Deadzone(a) == IF Abs(a) < INPUT_DEADZONE THEN 0 ELSE a

IsLocal(e) == e.id = cusers.self_id

\* player_input_system: the event written for the locally controlled entity
LocalInput(lh, lv) ==
    IF \E i \in 1..Len(players) : IsLocal(players[i])
    THEN <<PlayerInputEvent(cusers.self_id, Deadzone(lh), Deadzone(lv))>>
    ELSE <<>>

\* Faulty variant of the lookup: the first event of an id is kept.
InputByClient_first(events, id) ==
    LET S == { i \in 1..Len(events) : events[i].client_id = id }
    IN  IF S = {} THEN <<>>
        ELSE <<events[CHOOSE i \in S : \A j \in S : i <= j]>>

\* input_by_client.insert(..) over the events read: the last one per id
InputByClient(events, id) ==
    LET S == { i \in 1..Len(events) : events[i].client_id = id }
    IN  IF S = {} THEN <<>>
        ELSE <<events[CHOOSE i \in S : \A j \in S : j <= i]>>

\* move_and_slide of the external integrator: one grid unit per tick along
\* each axis the velocity points to.
MoveAndSlide(e, vx, vy) == [e EXCEPT !.x = @ + Sgn(vx), !.y = @ + Sgn(vy)]

\* Faulty variant of the facing: equal magnitudes go to the vertical axis.
FacingDir_vertical(h, v) ==
    IF Abs(h) > Abs(v)
    THEN (IF h >= 0 THEN "Right" ELSE "Left")
    ELSE (IF v >= 0 THEN "Down" ELSE "Up")

\* facing.0 for a nonzero effective input: the primary cardinal direction
FacingDir(h, v) ==
    IF Abs(h) >= Abs(v)
    THEN (IF h >= 0 THEN "Right" ELSE "Left")
    ELSE (IF v >= 0 THEN "Down" ELSE "Up")

\* Faulty variant of the movement: the facing is recomputed on every tick,
\* a zero input included.
Move_turns(e, events) ==
    LET input == InputByClient(events, e.id)
        h == IF input = <<>> THEN e.h ELSE Deadzone(input[1].horizontal)
        v == IF input = <<>> THEN e.v ELSE Deadzone(input[1].vertical)
        e1 == [e EXCEPT !.h = h, !.v = v, !.facing = FacingDir(h, v)]
    IN  IF h # 0 \/ v # 0
        THEN MoveAndSlide(e1, h * PLAYER_SPEED, v * PLAYER_SPEED)
        ELSE MoveAndSlide(e1, 0, 0)

Move(e, events) ==
    LET input == InputByClient(events, e.id)
        h == IF input = <<>> THEN e.h ELSE Deadzone(input[1].horizontal)
        v == IF input = <<>> THEN e.v ELSE Deadzone(input[1].vertical)
        e1 == [e EXCEPT !.h = h, !.v = v]
    IN  IF h # 0 \/ v # 0
        THEN MoveAndSlide([e1 EXCEPT !.facing = FacingDir(h, v)],
                          h * PLAYER_SPEED, v * PLAYER_SPEED)
        ELSE MoveAndSlide(e1, 0, 0)

\* player_animation_system, per player: run_<dir> while the persisted input
\* reaches the deadzone on an axis, idle_<dir> otherwise.
IsMoving(e) == Abs(e.h) >= INPUT_DEADZONE \/ Abs(e.v) >= INPUT_DEADZONE

DirStr(facing) ==
    CASE facing = "Up" -> "up"
      [] facing = "Down" -> "down"
      [] facing = "Left" -> "left"
      [] facing = "Right" -> "right"

AnimName(e) ==
    IF IsMoving(e) THEN "run_" \o DirStr(e.facing) ELSE "idle_" \o DirStr(e.facing)

\* Faulty variant of the animation switch: the animation is played on every
\* tick.
Animate_restarts(e) ==
    [e EXCEPT !.anim = AnimName(e), !.plays = Append(@, AnimName(e))]

\* if anim_state.current != anim_name { sprite.play(anim_name); .. }
Animate(e) ==
    IF e.anim # AnimName(e)
    THEN [e EXCEPT !.anim = AnimName(e), !.plays = Append(@, AnimName(e))]
    ELSE e

\* player_movement_system, then player_animation_system on what it left
player_movement_system(events) ==
    players' = [i \in 1..Len(players) |-> Animate(Move(players[i], events))]

\* One physics tick: player_input_system, player_movement_system and
\* player_animation_system, chained.
PhysicsTick(lh, lv) ==
    /\ nticks' = nticks + 1
    /\ LET local == LocalInput(lh, lv)
           sends == local # <<>> /\ conn[me] = "open"
       IN  /\ player_movement_system(inputEvents \o local)
           /\ sends => nmsgs < MaxMsgs
           /\ nmsgs' = IF sends THEN nmsgs + 1 ELSE nmsgs
           /\ inbox' = IF sends
                       THEN [inbox EXCEPT ![me] = Append(@,
                                [type |-> "PlayerUpdate",
                                 x |-> players[CHOOSE i \in 1..Len(players) :
                                                 IsLocal(players[i])].x,
                                 y |-> players[CHOOSE i \in 1..Len(players) :
                                                 IsLocal(players[i])].y,
                                 horizontal |-> local[1].horizontal,
                                 vertical |-> local[1].vertical])]
                       ELSE inbox
    /\ inputEvents' = <<>>
    /\ UNCHANGED <<conn, lostEvents, noticed, users, crashed, log,
                   me, mailbox, cusers, chat, spawnEvents, observed,
                   terminal, ccrashed>>

PhysicsUpdate(lh, lv) == nticks < MaxTicks /\ PhysicsTick(lh, lv)

----------------------------------------------------------------------------
\* Chat input of the client (rust/src/chat.rs, rust/src/lib.rs).  A state of
\* the chat path is the record [terminal, out, crashed] threaded through the
\* systems of one Update pass: the channel of start_chat_listener, the
\* messages handed to the connection, and whether a system panicked.

\* text.trim_end()
RECURSIVE TrimEnd(_)
TrimEnd(text) ==
    IF text # <<>> /\ text[Len(text)] = " "
    THEN TrimEnd(SubSeq(text, 1, Len(text) - 1))
    ELSE text

\* sender.try_send(..): Err(Full) when the channel holds its capacity
TrySendOk(cl) == Len(cl.terminal) < CHAT_CAPACITY

\* read_chat_messages over the ui_text_submit events of the frame, each with
\* the content of the input at that moment
RECURSIVE read_chat_messages(_, _)
read_chat_messages(cl, events) ==
    IF events = <<>> \/ cl.crashed THEN cl
    ELSE LET text == Head(events)
         IN  IF text = <<>>
             THEN read_chat_messages(cl, Tail(events))
             ELSE IF TrySendOk(cl)
             THEN read_chat_messages(
                      [cl EXCEPT !.terminal = Append(@, TrimEnd(text))],
                      Tail(events))
             ELSE [cl EXCEPT !.crashed = TRUE]

\* handle_terminal_messages: every text of the channel other than "quit" is
\* handed to the connection as a ChatMessage
handle_terminal_messages(cl) ==
    LET Said(t) == t # <<"q", "u", "i", "t">>
        said == SelectSeq(cl.terminal, Said)
    IN  [cl EXCEPT !.terminal = <<>>,
                   !.out = @ \o [i \in 1..Len(said) |->
                                   [type |-> "ChatMessage", message |-> said[i]]]]

\* One pass of the Update schedule over the chat path: read_chat_messages
\* and, under run_if(client_connected), handle_terminal_messages, which the
\* schedule leaves unordered.
Update(events, first) ==
    /\ ~ccrashed
    /\ events # <<>> => Len(inbox[me]) + Len(terminal) < MaxTyped
    /\ LET cl0 == [terminal |-> terminal, out |-> <<>>, crashed |-> FALSE]
           Connected(cl) == IF conn[me] = "open" /\ ~cl.crashed
                            THEN handle_terminal_messages(cl) ELSE cl
           cl == IF first = "read"
                 THEN Connected(read_chat_messages(cl0, events))
                 ELSE read_chat_messages(Connected(cl0), events)
       IN  /\ terminal' = cl.terminal
           /\ ccrashed' = cl.crashed
           /\ inbox' = [inbox EXCEPT ![me] = @ \o cl.out]
    /\ UNCHANGED <<conn, lostEvents, noticed, users, crashed, log, nmsgs,
                   me, mailbox, cusers, chat, players, spawnEvents, inputEvents,
                   observed, nticks>>

\* handle_client_events on the ConnectionEvent of the connection: the client
\* is connected and sends its Join.
handle_client_events(name) ==
    /\ ~ccrashed
    /\ conn[me] = "none"
    /\ conn' = [conn EXCEPT ![me] = "open"]
    /\ inbox' = [inbox EXCEPT ![me] = Append(@, [type |-> "Join", name |-> name])]
    /\ UNCHANGED <<lostEvents, noticed, users, crashed, log, nmsgs, cvars>>

----------------------------------------------------------------------------
InitServer ==
    /\ conn = [c \in Conns |-> "none"]
    /\ inbox = [c \in Conns |-> <<>>]
    /\ lostEvents = <<>>
    /\ noticed = {}
    /\ users = EmptyMap
    /\ crashed = FALSE
    /\ log = <<>>
    /\ nmsgs = 0

InitWorld ==
    /\ mailbox = <<>>
    /\ cusers = [self_id |-> 0, names |-> EmptyMap]
    /\ chat = <<>>
    /\ players = <<>>
    /\ spawnEvents = <<>>
    /\ inputEvents = <<>>
    /\ observed = {}
    /\ nticks = 0
    /\ terminal = <<>>
    /\ ccrashed = FALSE

Transport ==
    \/ \E c \in Conns, m \in ClientMessage : ClientSend(c, m) /\ UNCHANGED cvars
    \/ \E c \in Conns : ConnectionLost(c) /\ UNCHANGED cvars
    \/ \E c \in Conns : ClosedNotice(c) /\ UNCHANGED cvars

\* The server and its transport, with the history of the server's runs.
Init == InitServer /\ InitWorld /\ me = 1

Next ==
    \/ Transport
    \/ handle_client_messages("record")
    \/ handle_server_events("record")

vars == <<svars, cvars>>

Spec == Init /\ [][Next]_vars

\* The server, its transport and the client of connection me.
CInit == InitServer /\ InitWorld /\ me \in Conns

CNext ==
    \/ Transport
    \/ handle_client_messages("deliver")
    \/ handle_server_events("deliver")
    \/ \E n \in 1..MaxMsgs * (MaxConn + 2), order \in Orders(Conns) :
           handle_server_messages(n, order)
    \/ player_spawner_system
    \/ \E lh \in Axis, lv \in Axis : PhysicsUpdate(lh, lv)

SpecClient == CInit /\ [][CNext]_vars

\* The client of connection 1 alone, fed any sequence of server messages
\* about itself and a peer 2, repeated ones included.
Replayed ==
    { InitClient(1, [c \in {1} |-> "alice"]),
      InitClient(1, [c \in {1, 2} |-> IF c = 1 THEN "alice" ELSE "bob"]),
      ClientConnected(2, "bob"),
      ClientDisconnected(2),
      ChatMessage(2, "hi") }
    \cup { PlayerUpdate(2, r) : r \in Reports }

\* try_receive_message finds m on the connection
Arrive(m) ==
    /\ nmsgs < MaxMsgs
    /\ nmsgs' = nmsgs + 1
    /\ mailbox' = Append(mailbox, m)
    /\ UNCHANGED <<conn, inbox, lostEvents, noticed, users, crashed, log,
                   me, cusers, chat, players, spawnEvents, inputEvents,
                   observed, nticks, terminal, ccrashed>>

Frame(lh, lv) == nticks < MaxFrames /\ PhysicsTick(lh, lv)

RInit == InitServer /\ InitWorld /\ me = 1

RNext ==
    \/ \E m \in Replayed : Arrive(m)
    \/ \E n \in 1..MaxMsgs, order \in Orders(Conns) :
           handle_server_messages(n, order)
    \/ player_spawner_system
    \/ \E lh \in Axis, lv \in Axis : Frame(lh, lv)

SpecReplay == RInit /\ [][RNext]_vars

\* The chat input of the client of connection 1, from before its connection
\* is established until after it is lost.
ChatInit == InitServer /\ InitWorld /\ me = 1

ChatNext ==
    \/ \E name \in UserNames : handle_client_events(name)
    \/ ConnectionLost(me) /\ UNCHANGED cvars
    \/ \E events \in {<<>>} \cup { <<t>> : t \in Typed },
          first \in {"read", "send"} : Update(events, first)

SpecChat == ChatInit /\ [][ChatNext]_vars

----------------------------------------------------------------------------
\* The registry as the log determines it.  An id is registered after the
\* log L when L holds a Join of it that no Disconnect or Lost of it follows;
\* its name is the name of the first such Join.

IsLeave(r) == r.k = "Disconnect" \/ r.k = "Lost"
IsSend(r) == r.k = "send"

LeavesOf(L, c) == { i \in 1..Len(L) : IsLeave(L[i]) /\ L[i].id = c }
JoinsOf(L, c) == { i \in 1..Len(L) : L[i].k = "Join" /\ L[i].id = c }
OpenJoins(L, c) == { i \in JoinsOf(L, c) : \A j \in LeavesOf(L, c) : j < i }
Least(S) == CHOOSE i \in S : \A j \in S : i <= j

Expected(L) ==
    [c \in { d \in Conns : OpenJoins(L, d) # {} } |-> L[Least(OpenJoins(L, c))].name]

\* The registry the log determines after its first p entries
RegistryAt(p) == Expected(SubSeq(log, 1, p))

\* Entry i of the log is a Join that was accepted / a Join of a registered id
AcceptedJoin(i) ==
    log[i].k = "Join" /\ log[i].id \notin DOMAIN RegistryAt(i - 1)
DuplicateJoin(i) ==
    log[i].k = "Join" /\ log[i].id \in DOMAIN RegistryAt(i - 1)
\* Entry i is the departure of a registered id / of an id not registered
Departure(i) ==
    IsLeave(log[i]) /\ log[i].id \in DOMAIN RegistryAt(i - 1)
UnknownLeave(i) ==
    IsLeave(log[i]) /\ log[i].id \notin DOMAIN RegistryAt(i - 1)
\* Entry i + 1 is a send of one of the given message types
SendsNext(i, types) ==
    i < Len(log) /\ IsSend(log[i + 1]) /\ log[i + 1].msg.type \in types

\* C1: after every sequence of Join, Disconnect and connection-loss events
\* the server processed, Users.names holds exactly the ids with an accepted
\* Join and no later Disconnect or loss, each with the name of that Join.
C1_RegistryFromLog == users = Expected(log)

C1_Witness ==
    \E i, j \in 1..Len(log) :
        /\ i < j
        /\ AcceptedJoin(i)
        /\ Departure(j)
        /\ log[i].id = log[j].id
        /\ DOMAIN users # {}

\* C2: a Join from an id that is already registered leaves the registry as
\* it was (the registered name is kept) and is followed by no InitClient and
\* no ClientConnected.
C2_DuplicateJoinIgnored ==
    \A i \in 1..Len(log) :
        DuplicateJoin(i) =>
            /\ ~SendsNext(i, {"InitClient", "ClientConnected"})
            /\ i = Len(log) => users = RegistryAt(i - 1)

C2_Witness ==
    /\ log # <<>>
    /\ DuplicateJoin(Len(log))
    /\ users[log[Len(log)].id] # log[Len(log)].name

\* C3: the disconnect routine run for an id that is not registered (never
\* joined, or removed before) leaves the registry as it was, sends no
\* ClientDisconnected and does not panic.
C3_UnknownDisconnectIgnored ==
    \A i \in 1..Len(log) :
        UnknownLeave(i) =>
            /\ ~SendsNext(i, {"ClientDisconnected"})
            /\ i = Len(log) => users = RegistryAt(i - 1) /\ ~crashed

C3_Witness ==
    /\ Len(log) > 1
    /\ UnknownLeave(Len(log))
    /\ \E i \in 1..(Len(log) - 1) :
           Departure(i) /\ log[i].id = log[Len(log)].id
    /\ \E i \in 1..(Len(log) - 1) :
           UnknownLeave(i) /\ JoinsOf(log, log[i].id) = {}

\* C4: every departure of a registered id is answered by exactly one
\* ClientDisconnected for it, sent in the same call of the routine, and no
\* other ClientDisconnected for it is ever sent, whether the id leaves by
\* Disconnect, by connection loss, or by both.
DisconnectedSends(c) ==
    { i \in 1..Len(log) : IsSend(log[i]) /\ log[i].msg = ClientDisconnected(c) }
Departures(c) ==
    { i \in 1..Len(log) : Departure(i) /\ log[i].id = c }

C4_OneBroadcastPerDeparture ==
    \A c \in Conns :
        /\ DisconnectedSends(c) = { i + 1 : i \in Departures(c) }
        /\ Cardinality(DisconnectedSends(c)) <= 1

C4_Witness ==
    \E c \in Conns, i, j \in 1..Len(log) :
        /\ i < j
        /\ Departure(i) /\ log[i].id = c /\ log[i].k = "Disconnect"
        /\ log[j].k = "Lost" /\ log[j].id = c
        /\ Cardinality(DisconnectedSends(c)) = 1
        /\ \E d \in Conns : Departures(d) # {} /\ log[Least(Departures(d))].k = "Lost"

\* C5: an accepted Join of c is answered by InitClient sent to c alone and
\* then by ClientConnected{c, name} sent to every id registered after the
\* insertion, c included; c's connection takes both, InitClient first, and
\* no other ClientConnected for c is ever sent.
ConnectedSends(c) ==
    { i \in 1..Len(log) : IsSend(log[i]) /\ log[i].msg.type = "ClientConnected"
                          /\ log[i].msg.client_id = c }

C5_InitThenBroadcast ==
    \A i \in 1..Len(log) :
        AcceptedJoin(i) =>
            LET c == log[i].id IN
            /\ i + 2 <= Len(log)
            /\ IsSend(log[i + 1]) /\ log[i + 1].msg.type = "InitClient"
            /\ log[i + 1].msg.client_id = c
            /\ log[i + 1].to = {c} /\ log[i + 1].got = {c}
            /\ IsSend(log[i + 2])
            /\ log[i + 2].msg = ClientConnected(c, log[i].name)
            /\ log[i + 2].to = DOMAIN RegistryAt(i - 1) \cup {c}
            /\ c \in log[i + 2].got
            /\ ConnectedSends(c) = {i + 2}

C5_Witness ==
    \E i \in 1..Len(log) :
        /\ AcceptedJoin(i)
        /\ DOMAIN RegistryAt(i - 1) # {}
        /\ log[i + 2].got = log[i + 2].to

\* C6: the roster in the InitClient sent to a joining c is the registry right
\* after c's insertion: c with its name, every other id registered at that
\* moment, and nothing else.
C6_InitRosterIsRegistry ==
    \A i \in 1..Len(log) :
        AcceptedJoin(i) =>
            /\ i < Len(log)
            /\ log[i + 1].msg.usernames = RegistryAt(i)
            /\ log[i].id \in DOMAIN log[i + 1].msg.usernames
            /\ log[i + 1].msg.usernames[log[i].id] = log[i].name

C6_Witness ==
    \E i \in 1..Len(log) :
        /\ AcceptedJoin(i)
        /\ Cardinality(DOMAIN log[i + 1].msg.usernames) > 1

\* C7: the ClientDisconnected of a departing id is addressed to exactly the
\* ids left in the registry after the removal; the departing id is not among
\* them.
C7_DisconnectedToRemaining ==
    \A i \in 1..Len(log) :
        Departure(i) =>
            /\ i < Len(log)
            /\ IsSend(log[i + 1])
            /\ log[i + 1].msg = ClientDisconnected(log[i].id)
            /\ log[i + 1].to = DOMAIN RegistryAt(i)
            /\ log[i].id \notin log[i + 1].to

C7_Witness ==
    \E i \in 1..Len(log) :
        Departure(i) /\ log[i + 1].to # {}

----------------------------------------------------------------------------
\* The client of connection me, joined to the server.

\* The client has taken its InitClient, its connection stands, the server
\* runs and holds it registered, and nothing sent to it waits to be handled.
Settled ==
    /\ cusers.self_id = me
    /\ conn[me] = "open"
    /\ me \in DOMAIN users
    /\ ~crashed
    /\ mailbox = <<>>

\* The client was registered, has left the registry in which another client
\* remains, and has handled everything the server sent it; its connection is
\* closed for good.
Departed ==
    /\ cusers.self_id = me
    /\ me \notin DOMAIN users
    /\ conn[me] = "closed"
    /\ mailbox = <<>>
    /\ DOMAIN users # {}

\* C8 as stated: when B leaves, the remaining side and the departing side
\* both observe ClientDisconnected{B}, and the remaining side's roster no
\* longer holds B.
C8_BothSidesObserve ==
    /\ Departed => me \in observed
    /\ \A b \in observed : b \notin DOMAIN cusers.names
    /\ Settled => cusers.names = users

\* C8, amended: when B leaves, ClientDisconnected{B} is never delivered to B
\* itself; a remaining client A loses an entry of its roster only by taking
\* the ClientDisconnected of that id, an id whose ClientDisconnected it took
\* is not in its roster, and once A has handled what was sent to it its
\* roster is the server's registry, so it no longer holds B.
C8_RemainingSideObserves ==
    /\ [](me \notin observed)
    /\ [](\A b \in observed : b \notin DOMAIN cusers.names)
    /\ [](Settled => cusers.names = users)
    /\ [][(DOMAIN cusers.names \ DOMAIN cusers'.names) \subseteq observed']_vars

C8_Witness ==
    /\ Settled
    /\ observed # {}
    /\ \A b \in observed : b \notin DOMAIN users

\* C9: once InitClient has set the client's self_id, no message the server
\* sends on that connection changes it.
C9_SelfIdentityFixed ==
    [][cusers.self_id # 0 => cusers'.self_id = cusers.self_id]_vars

C9_Witness ==
    /\ cusers.self_id = me
    /\ observed # {}
    /\ chat # <<>>

\* C10: handling a PlayerUpdate that carries the client's own id leaves the
\* position of the locally controlled entity as it was, whatever position
\* and input it reports; and on the next physics tick that entity moves as
\* the local input alone dictates, not as the input the update echoed.
LocalPositions ==
    { <<players[i].x, players[i].y>> :
        i \in { j \in 1..Len(players) : IsLocal(players[j]) } }

HandlerStep == Len(mailbox') < Len(mailbox)
TickStep == nticks' # nticks

C10_SelfUpdateKeepsPosition ==
    [][/\ HandlerStep => LocalPositions' = LocalPositions
       /\ TickStep =>
            \E lh \in Axis, lv \in Axis :
                \A i \in 1..Len(players) :
                    IsLocal(players[i]) =>
                        players'[i] = Animate(Move(players[i],
                                  <<PlayerInputEvent(cusers.self_id, lh, lv)>>))
      ]_vars

C10_Witness ==
    \E i \in 1..Len(players), j \in 1..Len(inputEvents) :
        /\ IsLocal(players[i])
        /\ inputEvents[j].client_id = cusers.self_id
        /\ inputEvents[j].horizontal = -10
        /\ players[i].x = 200

----------------------------------------------------------------------------
\* The player systems and the client's handlers under replayed messages.

\* A run of handle_server_messages that took exactly the first message
OneMessageStep == Len(mailbox') = Len(mailbox) - 1

\* C11: on a PlayerUpdate for a remote participant the entity's position
\* becomes the reported (x, y) if and only if the distance between the two is
\* strictly greater than 2.0 (its square greater than 4); at 2.0 or less the
\* position, like everything else of the entity, stays as it was.
C11_SnapBeyondThreshold ==
    [][(/\ OneMessageStep
        /\ mailbox[1].type = "PlayerUpdate"
        /\ mailbox[1].client_id # cusers.self_id)
       => /\ Len(players') = Len(players)
          /\ \A i \in 1..Len(players) :
                LET e == players[i]
                    m == mailbox[1]
                    d2 == (e.x - m.x) * (e.x - m.x) + (e.y - m.y) * (e.y - m.y)
                IN  players'[i] = IF e.id = m.client_id /\ d2 > 4
                                  THEN [e EXCEPT !.x = m.x, !.y = m.y]
                                  ELSE e
      ]_vars

\* The remote entity was snapped to (210, 100) and a report of (212, 100),
\* at distance 2.0 exactly, has been handled since without moving it.
C11_Witness ==
    /\ nticks = 0
    /\ Len(inputEvents) = 2
    /\ inputEvents[2] = PlayerInputEvent(2, 0, 10)
    /\ \E i \in 1..Len(players) :
           players[i].id = 2 /\ players[i].x = 210 /\ players[i].y = 100

\* C12: an entity whose deadzone-filtered input (h, v) is not (0, 0) faces
\* Right if |h| >= |v| and h >= 0, Left if |h| >= |v| and h < 0, Down if
\* |h| < |v| and v >= 0, Up if |h| < |v| and v < 0.
C12_FacingByDominantAxis ==
    \A i \in 1..Len(players) :
        LET h == players[i].h
            v == players[i].v
            ah == IF h < 0 THEN -h ELSE h
            av == IF v < 0 THEN -v ELSE v
        IN  (h # 0 \/ v # 0) =>
                players[i].facing =
                    CASE ah >= av /\ h >= 0 -> "Right"
                      [] ah >= av /\ h < 0 -> "Left"
                      [] ah < av /\ v >= 0 -> "Down"
                      [] ah < av /\ v < 0 -> "Up"

C12_Witness ==
    \E i \in 1..Len(players) :
        /\ players[i].h = -10
        /\ players[i].v = 10
        /\ players[i].facing = "Left"

\* C13: on a tick where the deadzone-filtered input of an entity is (0, 0)
\* its facing stays what it was and the animation is idle_<that facing>.
C13_ZeroInputKeepsFacing ==
    [][TickStep =>
         \A i \in 1..Len(players) :
             (players'[i].h = 0 /\ players'[i].v = 0) =>
                 /\ players'[i].facing = players[i].facing
                 /\ players'[i].anim =
                        CASE players[i].facing = "Up" -> "idle_up"
                          [] players[i].facing = "Down" -> "idle_down"
                          [] players[i].facing = "Left" -> "idle_left"
                          [] players[i].facing = "Right" -> "idle_right"
      ]_vars

C13_Witness ==
    \E i \in 1..Len(players) :
        /\ players[i].h = 0
        /\ players[i].v = 0
        /\ players[i].facing = "Left"
        /\ players[i].anim = "idle_left"

\* C14: in every state of the client, handling ClientDisconnected{id} twice
\* leaves the roster and the chat log as handling it once does: the second
\* time nothing is removed and no command, so no chat entry, is queued.
C14_DisconnectedTwiceAsOnce ==
    \A id \in Conns :
        LET m == ClientDisconnected(id)
            once == OnClientDisconnected([users |-> cusers, cmds |-> <<>>], m)
            twice == OnClientDisconnected(once, m)
        IN  /\ twice.users = once.users
            /\ twice.cmds = once.cmds
            /\ ApplyAll(World, twice.cmds).chat = ApplyAll(World, once.cmds).chat

C14_Witness ==
    /\ 2 \in DOMAIN cusers.names
    /\ mailbox = <<ClientDisconnected(2), ClientDisconnected(2)>>

----------------------------------------------------------------------------
\* The chat log and the player entities of a client joined to the server.

Logged(m) == m.type \in {"ChatMessage", "ClientConnected", "ClientDisconnected"}

\* line is the chat entry of the message m
EntryOf(line, m) ==
    CASE m.type = "ClientConnected" -> line = JoinedLine(m.username)
      [] m.type = "ClientDisconnected" -> Len(line) = 2 /\ line[2] = " left"
      [] m.type = "ChatMessage" -> Len(line) = 3 /\ line[3] = m.message

\* C15: every ChatMessage, ClientConnected and ClientDisconnected a client
\* receives appends exactly one entry to its chat log, in the order of
\* receipt, and no entry is removed or reordered.
C15_OneEntryPerMessage ==
    [][HandlerStep =>
         LET n == Len(mailbox) - Len(mailbox')
             msgs == SelectSeq(SubSeq(mailbox, 1, n), Logged)
         IN  /\ Len(chat') = Len(chat) + Len(msgs)
             /\ SubSeq(chat', 1, Len(chat)) = chat
             /\ \A k \in 1..Len(msgs) : EntryOf(chat'[Len(chat) + k], msgs[k])
      ]_vars

\* C16: a broadcast that fails for one peer (a peer still registered whose
\* connection is gone) does not terminate the server, whichever message is
\* being handled.
C16_SendFailureNotFatal ==
    \A i \in 1..Len(log) :
        (IsSend(log[i]) /\ log[i].got # log[i].to) => ~crashed

\* C17: once a client has handled ClientDisconnected{id} and the spawns
\* queued so far have been carried out, it holds no player entity of id.
C17_NoEntityOfDeparted ==
    spawnEvents = <<>> => \A i \in 1..Len(players) : players[i].id \notin observed

\* C18: no participant is spawned twice.  Handling the next message that
\* has arrived issues, for InitClient, one spawn for the client itself and
\* one for every other member of the roster, and for ClientConnected one
\* spawn if the id is not the client's own and none if it is; none of these
\* ids has an entity or a pending spawn already, and no id ever has more
\* than one entity and pending spawn together.
SpawnsOf(cmds) ==
    LET IsSpawn(c) == c.k = "spawn"
        sp == SelectSeq(cmds, IsSpawn)
    IN  [i \in 1..Len(sp) |-> sp[i].id]

Present(id) ==
    Cardinality({ i \in 1..Len(players) : players[i].id = id })
        + Cardinality({ j \in 1..Len(spawnEvents) : spawnEvents[j] = id })

C18_NoDoubleSpawn ==
    /\ \A id \in Conns : Present(id) <= 1
    /\ mailbox # <<>> =>
         \A order \in Orders(Conns) :
            LET m == Head(mailbox)
                sp == SpawnsOf(ClientDispatch([users |-> cusers, cmds |-> <<>>],
                                              m, order).cmds)
                ids == { sp[i] : i \in 1..Len(sp) }
            IN  /\ Cardinality(ids) = Len(sp)
                /\ \A id \in ids : Present(id) = 0
                /\ m.type = "InitClient" =>
                       ids = DOMAIN m.usernames /\ m.client_id \in ids
                /\ m.type = "ClientConnected" =>
                       ids = {m.client_id} \ {cusers.self_id}
                /\ m.type \notin {"InitClient", "ClientConnected"} => ids = {}

\* The client holds its own entity and a peer's, and has handled the
\* ClientConnected of its own Join.
C18_Witness ==
    /\ cusers.self_id = me
    /\ mailbox = <<>>
    /\ spawnEvents = <<>>
    /\ Len(players) = 2
    /\ \E i \in 1..Len(chat) : chat[i] = JoinedLine(cusers.names[me])

----------------------------------------------------------------------------
\* Order and cancellation of what the server applies.

Relayed(r) == IsSend(r) /\ r.msg.type \in {"ChatMessage", "PlayerUpdate"}

\* The log entry r comes from a message of connection c
FromConn(c, r) ==
    \/ r.k \in {"Join", "Disconnect"} /\ r.id = c
    \/ Relayed(r) /\ r.msg.client_id = c

\* C19: once a Disconnect or a loss of c has been handled, nothing c sent is
\* applied any more: no Join or Disconnect of c is handled, no ChatMessage
\* or PlayerUpdate of c is broadcast, and c is not in the registry.
C19_NothingAfterDeparture ==
    \A i \in 1..Len(log) :
        IsLeave(log[i]) =>
            /\ log[i].id \notin DOMAIN users
            /\ \A j \in (i + 1)..Len(log) : ~FromConn(log[i].id, log[j])

\* Connection 1 alone sent three messages; its Join and its Disconnect were
\* handled and the third, queued behind the Disconnect, was dropped.
C19_Witness ==
    /\ conn[2] = "none"
    /\ nmsgs = 3
    /\ inbox[1] = <<>>
    /\ Len(log) = 5
    /\ log[1].k = "Join"
    /\ log[4].k = "Disconnect"

\* The client message a log entry comes from
AsSent(r) ==
    CASE r.k = "Join" -> [type |-> "Join", name |-> r.name]
      [] r.k = "Disconnect" -> [type |-> "Disconnect"]
      [] Relayed(r) /\ r.msg.type = "ChatMessage" ->
            [type |-> "ChatMessage", message |-> r.msg.message]
      [] Relayed(r) /\ r.msg.type = "PlayerUpdate" ->
            [type |-> "PlayerUpdate", x |-> r.msg.x, y |-> r.msg.y,
             horizontal |-> r.msg.horizontal, vertical |-> r.msg.vertical]

\* What a run of the server applied of connection c is, in order, the
\* beginning of what c had sent, and what it leaves queued is the rest,
\* unless the connection is closed.
InSendOrder ==
    \A c \in Conns :
        LET new == SubSeq(log', Len(log) + 1, Len(log'))
            Mine(r) == FromConn(c, r)
            ap == SelectSeq(new, Mine)
        IN  /\ Len(ap) <= Len(inbox[c])
            /\ \A k \in 1..Len(ap) : AsSent(ap[k]) = inbox[c][k]
            /\ log' # log =>
                   \/ inbox'[c] = SubSeq(inbox[c], Len(ap) + 1, Len(inbox[c]))
                   \/ inbox'[c] = <<>>

\* The recipient r was told of c before entry i of the log
KnownTo(r, c, i) ==
    \E j \in 1..(i - 1) :
        /\ IsSend(log[j])
        /\ r \in log[j].got
        /\ \/ log[j].msg.type = "ClientConnected" /\ log[j].msg.client_id = c
           \/ log[j].msg.type = "InitClient" /\ c \in DOMAIN log[j].msg.usernames

----------------------------------------------------------------------------
\* The relays of ChatMessage and PlayerUpdate.

\* The connections with a ChatMessage or PlayerUpdate next in their queue
Relaying ==
    { c \in Open : inbox[c] # <<>>
                   /\ Head(inbox[c]).type \in {"ChatMessage", "PlayerUpdate"} }

\* The server message that relays the client message m of connection c
RelayOf(c, m) ==
    IF m.type = "ChatMessage"
    THEN [type |-> "ChatMessage", client_id |-> c, message |-> m.message]
    ELSE [type |-> "PlayerUpdate", client_id |-> c, x |-> m.x, y |-> m.y,
          horizontal |-> m.horizontal, vertical |-> m.vertical]

\* C21: a ChatMessage or PlayerUpdate received from c is sent once, to every
\* id in the registry at that moment (c among them when it is registered),
\* with the payload as received and client_id = c; the registry stays as it
\* was and the server does not panic.
C21_RelayToRegistry ==
    /\ \A c \in Relaying :
          LET m == Head(inbox[c])
              s == Dispatch(ServerState, c, m)
          IN  /\ s.tr = <<[k |-> "send", msg |-> RelayOf(c, m),
                           to |-> DOMAIN users, got |-> DOMAIN users \cap Open]>>
              /\ s.users = users
              /\ s.crashed = crashed
    /\ \A i \in 1..Len(log) :
          Relayed(log[i]) => log[i].to = DOMAIN RegistryAt(i - 1)

\* A registered connection's message was relayed to both registered
\* connections, itself included.
C21_Witness ==
    \E i \in 1..Len(log) :
        /\ Relayed(log[i])
        /\ log[i].to = Conns
        /\ log[i].got = Conns
        /\ log[i].msg.client_id \in log[i].to

----------------------------------------------------------------------------
\* Who is sent what.

\* The sends of the log that connection r took
GotBy(r) == { i \in 1..Len(log) : IsSend(log[i]) /\ r \in log[i].got }

\* C27: every send of the server is addressed to ids that are in the
\* registry at the moment of the send; the first message a connection takes
\* is the InitClient of its own Join, and a connection that has not joined
\* takes nothing.
C27_SendsToRegisteredOnly ==
    /\ \A i \in 1..Len(log) :
          IsSend(log[i]) => log[i].to \subseteq DOMAIN RegistryAt(i - 1)
    /\ \A r \in Conns :
          /\ GotBy(r) # {} =>
                LET first == log[Least(GotBy(r))] IN
                /\ first.msg.type = "InitClient"
                /\ first.msg.client_id = r
                /\ first.to = {r}
          /\ JoinsOf(log, r) = {} => GotBy(r) = {}

\* Connection 1 is open and has sent messages but no Join: it took nothing
\* of what was relayed to connection 2, registered meanwhile.
C27_Witness ==
    /\ conn[1] = "open"
    /\ JoinsOf(log, 1) = {}
    /\ GotBy(1) = {}
    /\ \E i \in 1..Len(log) : Relayed(log[i]) /\ log[i].got = {2}

\* C28: the client_id of every ChatMessage or PlayerUpdate sent to a
\* non-empty registry is registered at the moment of the send; what a
\* connection that has not joined sends is not relayed.
C28_RelayedFromRegistered ==
    \A i \in 1..Len(log) :
        (Relayed(log[i]) /\ log[i].to # {})
        => log[i].msg.client_id \in DOMAIN RegistryAt(i - 1)

----------------------------------------------------------------------------
\* What a client joined to the server holds.

\* C24: the chat log of a client is empty until it has taken its InitClient,
\* which is the first message it receives and adds no entry; the first entry
\* is the notice of the client's own join, so nothing that was broadcast
\* before its registration is in its log.
C24_NoHistoryReplay ==
    /\ cusers.self_id = 0 =>
          /\ chat = <<>>
          /\ mailbox # <<>> =>
                Head(mailbox).type = "InitClient" /\ Head(mailbox).client_id = me
    /\ (cusers.self_id # 0 /\ chat = <<>> /\ mailbox # <<>>) =>
          Head(mailbox) = ClientConnected(me, cusers.names[me])
    /\ chat # <<>> =>
          /\ me \in DOMAIN cusers.names
          /\ chat[1] = JoinedLine(cusers.names[me])

\* The client of connection 2 joined after connection 1 and holds it in its
\* roster; its chat log is its own join notice alone.
C24_Witness ==
    /\ me = 2
    /\ 1 \in DOMAIN cusers.names
    /\ cusers.names[1] # cusers.names[2]
    /\ chat = <<JoinedLine(cusers.names[2])>>

\* C26: once the client has handled everything the server sent it, its
\* roster has the ids of the server's registry and the same name for each,
\* whichever joins, disconnects and losses of the others came before.
C26_RosterEqualsRegistry ==
    Settled =>
        /\ DOMAIN cusers.names = DOMAIN users
        /\ \A c \in DOMAIN users : cusers.names[c] = users[c]

\* The client joined first and has handled the join of the other connection.
C26_Witness ==
    /\ Settled
    /\ me = 1
    /\ DOMAIN users = Conns
    /\ Len(chat) = 2

----------------------------------------------------------------------------
\* Messages about ids the client does not know.

\* The id is neither in the roster nor the id of a player entity
Unknown(id) ==
    /\ id \notin DOMAIN cusers.names
    /\ \A i \in 1..Len(players) : players[i].id # id

\* The messages naming id whose handling is tried
Naming(id) ==
    { ClientDisconnected(id), ChatMessage(id, "hi") }
    \cup { PlayerUpdate(id, r) : r \in Reports }

\* C25: handling a ChatMessage, PlayerUpdate or ClientDisconnected that names
\* an id unknown to the client leaves the roster, self_id, the chat log, the
\* pending spawns and every entity as they were; the only trace is the input
\* event a PlayerUpdate writes, which no entity reads.
C25_UnknownIdIgnored ==
    \A id \in 1..(MaxConn + 1) :
        Unknown(id) =>
            \A m \in Naming(id), order \in Orders(Conns) :
                LET cs == ClientDispatch([users |-> cusers, cmds |-> <<>>],
                                         m, order)
                    w == ApplyAll(World, cs.cmds)
                IN  /\ cs.users = cusers
                    /\ w.chat = chat
                    /\ w.players = players
                    /\ w.spawnEvents = spawnEvents
                    /\ \A i \in 1..Len(players) :
                          Move(players[i], w.inputEvents)
                              = Move(players[i], inputEvents)

\* The client holds its own entity alone and has handled a PlayerUpdate of
\* connection 2, which it does not know.
C25_Witness ==
    /\ cusers.self_id = 1
    /\ Unknown(2)
    /\ nmsgs = 2
    /\ mailbox = <<>>
    /\ Len(players) = 1
    /\ Len(inputEvents) = 1
    /\ inputEvents[1].client_id = 2

----------------------------------------------------------------------------
\* The animation of the player entities.

RunNames == {"run_up", "run_down", "run_left", "run_right"}

\* C22: the animation of an entity is a run_ animation if and only if an
\* axis of its persisted input is greater than the deadzone; a magnitude
\* equal to the deadzone does not count as moving.
C22_MovingAboveDeadzone ==
    \A i \in 1..Len(players) :
        players[i].anim # "" =>
            (players[i].anim \in RunNames
             <=> (\/ Abs(players[i].h) > INPUT_DEADZONE
                  \/ Abs(players[i].v) > INPUT_DEADZONE))

\* C23: the animations played on an entity's sprite never repeat one after
\* the other, and the recorded current animation is the last one played
\* (none before the first), so an animation is played in a tick only when
\* it differs from the recorded one.
C23_PlayedOnChangeOnly ==
    \A i \in 1..Len(players) :
        LET e == players[i] IN
        /\ \A k \in 1..(Len(e.plays) - 1) : e.plays[k] # e.plays[k + 1]
        /\ e.plays = <<>> => e.anim = ""
        /\ e.plays # <<>> => e.anim = e.plays[Len(e.plays)]

\* An entity ran to the right over two ticks (from x = 202 to 204) and its
\* animation was played once.
C23_Witness ==
    /\ nticks = 2
    /\ \E i \in 1..Len(players) :
          /\ players[i].x = 204
          /\ players[i].plays = <<"run_right">>

----------------------------------------------------------------------------
\* The persisted input of the player entities.

\* The events of id among events, in the order read
EventsOf(events, id) ==
    LET Mine(ev) == ev.client_id = id IN SelectSeq(events, Mine)

\* a is what the deadzone filter leaves of an axis value
Filtered(a) == a = 0 \/ a >= INPUT_DEADZONE \/ -a >= INPUT_DEADZONE

\* e1 persists the axes of the event ev, filtered
Persists(e1, ev) ==
    /\ e1.h = (IF Abs(ev.horizontal) < INPUT_DEADZONE THEN 0 ELSE ev.horizontal)
    /\ e1.v = (IF Abs(ev.vertical) < INPUT_DEADZONE THEN 0 ELSE ev.vertical)

\* C30: after a tick every axis of an entity's persisted input is 0 or at
\* least the deadzone in magnitude, and the entity has moved in the tick if
\* and only if its animation is a run_ animation; with no input event for
\* the entity in the tick its persisted input is as before; with several,
\* the last one read is persisted (for the local entity that is the event
\* player_input_system wrote in the tick).
C30_PersistedInput ==
    [][TickStep =>
         /\ Len(players') = Len(players)
         /\ \A i \in 1..Len(players) :
               LET e == players[i]
                   e1 == players'[i]
                   evs == EventsOf(inputEvents, e.id)
               IN  /\ Filtered(e1.h) /\ Filtered(e1.v)
                   /\ (e1.x # e.x \/ e1.y # e.y) <=> e1.anim \in RunNames
                   /\ IF e.id = cusers.self_id
                      THEN \E lh \in Axis, lv \in Axis :
                               Persists(e1, PlayerInputEvent(e.id, lh, lv))
                      ELSE IF evs = <<>>
                      THEN e1.h = e.h /\ e1.v = e.v
                      ELSE Persists(e1, evs[Len(evs)])
      ]_vars

\* Two PlayerUpdates of connection 2 were handled before the one tick; the
\* entity of 2 persists the input (-10, 5) and has moved from (210, 100).
C30_Witness ==
    /\ nmsgs = 3
    /\ nticks = 1
    /\ mailbox = <<>>
    /\ spawnEvents = <<>>
    /\ inputEvents = <<>>
    /\ chat = <<>>
    /\ Len(players) = 2
    /\ \E i \in 1..Len(players) :
          /\ players[i].id = 2
          /\ players[i].h = -10 /\ players[i].v = 5
          /\ players[i].x = 209 /\ players[i].y = 101
          /\ players[i].anim = "run_left"

----------------------------------------------------------------------------
\* The chat input.

\* C29: submitting chat text never makes the client panic, also when the
\* channel holds its capacity because the client is not connected and
\* nothing reads it; a text that cannot be enqueued is dropped.
C29_SubmitNeverCrashes == ~ccrashed

====
